---- MODULE Spec2Model ----
(***************************************************************************)
(* Model of roboto.c: a Pebble watch face showing the time with a bold     *)
(* hour and a thin minute (the TimeLayer), and a date line below it.       *)
(*                                                                         *)
(* Two specifications are given.  Spec is the watch face itself: the       *)
(* event loop calls handle_init, then minute ticks and draw passes, then   *)
(* handle_deinit.  LayoutSpec exercises the TimeLayer as a component: its  *)
(* setters and its draw hook called in any order with any arguments.       *)
(***************************************************************************)
EXTENDS Integers, Sequences, FiniteSets, TLC

(***************************************************************************)
(* Bounds of the model.                                                    *)
(***************************************************************************)
\* Bounds widths 0..MaxW are explored (and the real display width, 144).
MaxW == 3
\* Measured text widths 0..MaxMeasured are explored (and 30, 48, 60).
MaxMeasured == 4
\* Number of consecutive calendar days the clock can run through.
MaxDays == 2

(***************************************************************************)
(* Program constants.                                                      *)
(***************************************************************************)
\* sizeof(date_text), sizeof(hour_text), sizeof(minute_text)
DateBufSize == 12
HourBufSize == 3
MinuteBufSize == 4
\* The display: TIME_FRAME and DATE_FRAME
ScreenW == 144
ScreenH == 168
TimeFrameY == 40
DateFrameY == 96

NULL == "NULL"
NUL == "NUL"

GRect(x, y, w, h) == [origin |-> [x |-> x, y |-> y], size |-> [w |-> w, h |-> h]]
TIME_FRAME == GRect(0, TimeFrameY, ScreenW, ScreenH - TimeFrameY)
DATE_FRAME == GRect(0, DateFrameY, ScreenW, ScreenH - DateFrameY)
\* window.layer.frame after window_init: the whole screen
WindowFrame == GRect(0, 0, ScreenW, ScreenH)

SECOND_UNIT == "SECOND_UNIT"
MINUTE_UNIT == "MINUTE_UNIT"
HOUR_UNIT == "HOUR_UNIT"
DAY_UNIT == "DAY_UNIT"
TimeUnits == {SECOND_UNIT, MINUTE_UNIT, HOUR_UNIT, DAY_UNIT}

(***************************************************************************)
(* C integer arithmetic.                                                   *)
(***************************************************************************)
\* C's / truncates toward zero.
CDiv(a, b) ==
    IF a >= 0 THEN a \div b ELSE -((-a) \div b)

\* GRect coordinates and sizes are int16_t: an int stored there wraps.
ToInt16(x) ==
    ((x + 32768) % 65536) - 32768

(***************************************************************************)
(* Broken-out time (PblTm) and string_format_time.                         *)
(***************************************************************************)
\* The calendar days of the model: MaxDays days of 2013 starting at Apr 5.
Ydays == 94 .. (94 + MaxDays - 1)
Hours == 0 .. 23
Minutes == {0, 7, 59}

\* Days before each month of 2013 (tm_mon is 0-based).
MonthStart ==
    <<0, 31, 59, 90, 120, 151, 181, 212, 243, 273, 304, 334, 365>>

MonOf(yday) ==
    CHOOSE m \in 0 .. 11 : MonthStart[m + 1] <= yday /\ yday < MonthStart[m + 2]

PblTm(yday, hour, min) ==
    [tm_min  |-> min,
     tm_hour |-> hour,
     tm_mday |-> yday - MonthStart[MonOf(yday) + 1] + 1,
     tm_mon  |-> MonOf(yday),
     tm_wday |-> (yday + 2) % 7,
     tm_yday |-> yday]

Times == {PblTm(d, h, m) : d \in Ydays, h \in Hours, m \in Minutes}

WdayNames ==
    << <<"S","u","n">>, <<"M","o","n">>, <<"T","u","e">>, <<"W","e","d">>,
       <<"T","h","u">>, <<"F","r","i">>, <<"S","a","t">> >>

MonNames ==
    << <<"J","a","n">>, <<"F","e","b">>, <<"M","a","r">>, <<"A","p","r">>,
       <<"M","a","y">>, <<"J","u","n">>, <<"J","u","l">>, <<"A","u","g">>,
       <<"S","e","p">>, <<"O","c","t">>, <<"N","o","v">>, <<"D","e","c">> >>

DigitChars == <<"0", "1", "2", "3", "4", "5", "6", "7", "8", "9">>

\* A number 0..99 as two decimal digits.
TwoDigits(n) ==
    <<DigitChars[(n \div 10) + 1], DigitChars[(n % 10) + 1]>>

\* One conversion of a strftime pattern; any other token is copied literally.
Conversion(token, tm) ==
    CASE token = "%a" -> WdayNames[tm.tm_wday + 1]
      [] token = "%b" -> MonNames[tm.tm_mon + 1]
      [] token = "%d" -> TwoDigits(tm.tm_mday)
      [] token = "%H" -> TwoDigits(tm.tm_hour)
      [] token = "%I" -> TwoDigits(IF tm.tm_hour % 12 = 0 THEN 12 ELSE tm.tm_hour % 12)
      [] token = "%M" -> TwoDigits(tm.tm_min)
      [] OTHER -> <<token>>

RECURSIVE FormatTime(_, _)
FormatTime(pattern, tm) ==
    IF pattern = <<>> THEN <<>>
    ELSE Conversion(Head(pattern), tm) \o FormatTime(Tail(pattern), tm)

\* string_format_time(buf, size, pattern, tm): the formatted characters and a
\* terminator are stored at the start of buf; bytes after the terminator keep
\* their value.  A result that does not fit is cut to size - 1 characters.
string_format_time(buf, size, pattern, tm) ==
    LET s == FormatTime(pattern, tm)
        n == IF Len(s) + 1 <= size THEN Len(s) ELSE size - 1
    IN  [i \in 1 .. Len(buf) |->
            IF i <= n THEN s[i] ELSE IF i = n + 1 THEN NUL ELSE buf[i]]

\* memmove(&buf[dst], &buf[src], n), with 0-based offsets as in C.
memmove(buf, dst, src, n) ==
    [i \in 1 .. Len(buf) |->
        IF i - 1 >= dst /\ i - 1 < dst + n THEN buf[i - dst + src] ELSE buf[i]]

\* The C string held in a buffer: the characters before the first terminator.
RECURSIVE CStr(_)
CStr(buf) ==
    IF buf = <<>> \/ Head(buf) = NUL THEN <<>>
    ELSE <<Head(buf)>> \o CStr(Tail(buf))

DatePattern == <<"%a", ",", " ", "%b", " ", "%d">>
Hour24Pattern == <<"%H">>
Hour12Pattern == <<"%I">>
MinutePattern == <<":", "%M">>

(***************************************************************************)
(* State.                                                                  *)
(***************************************************************************)
VARIABLES
    window,       \* Window window
    date_layer,   \* TextLayer date_layer
    time_layer,   \* TimeLayer time_layer
    font_date,    \* GFont font_date
    font_hour,    \* GFont font_hour
    font_minute,  \* GFont font_minute
    date_text,    \* static char date_text[] in handle_minute_tick
    hour_text,    \* static char hour_text[] in handle_minute_tick
    minute_text,  \* static char minute_text[] in handle_minute_tick
    loaded,       \* the custom fonts the font cache holds loaded
    clock,        \* the clock collaborator: wall-clock time and 12/24h setting
    pc,           \* where the event loop is: "start", "running", "done"
    op,           \* the handler invoked last, with its arguments
    calls         \* the collaborator calls that handler issued, in order

vars ==
    <<window, date_layer, time_layer, font_date, font_hour, font_minute,
      date_text, hour_text, minute_text, loaded, clock, pc, op, calls>>

\* The program's memory as one record, so that the C functions can be written
\* as operators from memory to memory and composed as the code composes them.
World ==
    [window      |-> window,
     date_layer  |-> date_layer,
     time_layer  |-> time_layer,
     font_date   |-> font_date,
     font_hour   |-> font_hour,
     font_minute |-> font_minute,
     date_text   |-> date_text,
     hour_text   |-> hour_text,
     minute_text |-> minute_text,
     loaded      |-> loaded,
     calls       |-> <<>>]

Commit(w) ==
    /\ window' = w.window
    /\ date_layer' = w.date_layer
    /\ time_layer' = w.time_layer
    /\ font_date' = w.font_date
    /\ font_hour' = w.font_hour
    /\ font_minute' = w.font_minute
    /\ date_text' = w.date_text
    /\ hour_text' = w.hour_text
    /\ minute_text' = w.minute_text
    /\ loaded' = w.loaded
    /\ calls' = w.calls

\* A collaborator call is recorded in the order it is issued.
Log(w, call) ==
    [w EXCEPT !.calls = Append(@, call)]

\* The string a char pointer refers to, read now.
Deref(w, p) ==
    IF p = NULL THEN <<>> ELSE CStr(w[p])

(***************************************************************************)
(* The layer collaborator.                                                 *)
(***************************************************************************)
ZeroRect == GRect(0, 0, 0, 0)

\* Globals are zero-initialized: null pointers, GColorBlack (0),
\* GTextOverflowModeWordWrap (0).
ZeroLayer ==
    [frame |-> ZeroRect, bounds |-> ZeroRect, dirty |-> FALSE, parent |-> NULL]

ZeroTimeLayer ==
    [layer            |-> ZeroLayer,
     hour_text        |-> NULL,
     minute_text      |-> NULL,
     hour_font        |-> NULL,
     minute_font      |-> NULL,
     layout_cache     |-> NULL,
     text_color       |-> "GColorBlack",
     background_color |-> "GColorBlack",
     overflow_mode    |-> "GTextOverflowModeWordWrap"]

ZeroTextLayer ==
    [layer            |-> ZeroLayer,
     text             |-> NULL,
     font             |-> NULL,
     text_color       |-> "GColorBlack",
     background_color |-> "GColorBlack",
     text_alignment   |-> "GTextAlignmentLeft"]

\* layer_init(layer, frame): the bounds cover the frame, at origin (0, 0).
layer_init(layer, frame) ==
    [layer EXCEPT !.frame = frame,
                  !.bounds = GRect(0, 0, frame.size.w, frame.size.h),
                  !.parent = NULL]

\* layer_set_frame(layer, frame): the bounds take the frame's size.
layer_set_frame(layer, frame) ==
    [layer EXCEPT !.frame = frame,
                  !.bounds.size = frame.size,
                  !.dirty = TRUE]

\* layer_mark_dirty(&(tl->layer))
time_layer_mark_dirty(w) ==
    Log([w EXCEPT !.time_layer.layer.dirty = TRUE],
        [fn |-> "layer_mark_dirty", layer |-> "time_layer"])

(***************************************************************************)
(* TimeLayer.                                                              *)
(***************************************************************************)
\* HourBounds with the gap halved in one division: (W - total) / 2 + hw.
HourBounds_oneDivision(bounds, hour_w, minute_w) ==
    LET width == minute_w + hour_w
    IN  [bounds EXCEPT !.size.w =
            ToInt16(CDiv(bounds.size.w - width, 2) + hour_w)]

\* HourBounds without the hour width added: the seam at the run's left edge.
HourBounds_noHourWidth(bounds, hour_w, minute_w) ==
    LET width == minute_w + hour_w
        half == CDiv(bounds.size.w, 2)
    IN  [bounds EXCEPT !.size.w = ToInt16(half - CDiv(width, 2))]

\* The boxes the draw hook computes from the bounds and the measured widths.
HourBounds(bounds, hour_w, minute_w) ==
    LET width == minute_w + hour_w
        half == CDiv(bounds.size.w, 2)
    IN  [bounds EXCEPT !.size.w = ToInt16(half - CDiv(width, 2) + hour_w)]

\* MinuteBounds leaving two columns between the boxes.
MinuteBounds_wideSeam(bounds, hour_w, minute_w) ==
    LET hour_bounds == HourBounds(bounds, hour_w, minute_w)
    IN  [bounds EXCEPT !.origin.x = ToInt16(hour_bounds.size.w + 2),
                       !.size.w = minute_w]

MinuteBounds(bounds, hour_w, minute_w) ==
    LET hour_bounds == HourBounds(bounds, hour_w, minute_w)
    IN  [bounds EXCEPT !.origin.x = ToInt16(hour_bounds.size.w + 1),
                       !.size.w = minute_w]

\* FillBackground filling whatever the background colour is.
FillBackground_always(w) ==
    LET tl == w.time_layer
    IN  Log(Log(w, [fn |-> "graphics_context_set_fill_color",
                    color |-> tl.background_color]),
            [fn |-> "graphics_fill_rect", rect |-> tl.layer.bounds])

\* The background fill of the draw hook.
FillBackground(w) ==
    LET tl == w.time_layer
    IN  IF tl.background_color # "GColorClear"
        THEN Log(Log(w, [fn |-> "graphics_context_set_fill_color",
                         color |-> tl.background_color]),
                 [fn |-> "graphics_fill_rect", rect |-> tl.layer.bounds])
        ELSE w

MeasureCall(w, ptr, font, hsize) ==
    [fn        |-> "graphics_text_layout_get_max_used_size",
     text      |-> Deref(w, ptr),
     font      |-> font,
     box       |-> w.time_layer.layer.bounds,
     overflow  |-> w.time_layer.overflow_mode,
     alignment |-> "GTextAlignmentLeft",
     cache     |-> w.time_layer.layout_cache,
     result_w  |-> hsize]

DrawCall(w, ptr, font, box, alignment) ==
    [fn        |-> "graphics_text_draw",
     text      |-> Deref(w, ptr),
     font      |-> font,
     box       |-> box,
     overflow  |-> w.time_layer.overflow_mode,
     alignment |-> alignment,
     cache     |-> w.time_layer.layout_cache]

\* DrawTexts laying out on the layer's frame, which a change of bounds
\* leaves as it was.
DrawTexts_fromFrame(w, hour_w, minute_w) ==
    LET tl == w.time_layer
        bounds == tl.layer.frame
        w1 == Log(w, MeasureCall(w, tl.hour_text, tl.hour_font, hour_w))
        w2 == Log(w1, MeasureCall(w, tl.minute_text, tl.minute_font, minute_w))
        w3 == Log(w2, DrawCall(w, tl.hour_text, tl.hour_font,
                               HourBounds(bounds, hour_w, minute_w),
                               "GTextAlignmentRight"))
    IN  Log(w3, DrawCall(w, tl.minute_text, tl.minute_font,
                         MinuteBounds(bounds, hour_w, minute_w),
                         "GTextAlignmentLeft"))

\* The text part of the draw hook; hour_w and minute_w are the widths the
\* two measurement calls return.
DrawTexts(w, hour_w, minute_w) ==
    LET tl == w.time_layer
        bounds == tl.layer.bounds
        w1 == Log(w, MeasureCall(w, tl.hour_text, tl.hour_font, hour_w))
        w2 == Log(w1, MeasureCall(w, tl.minute_text, tl.minute_font, minute_w))
        w3 == Log(w2, DrawCall(w, tl.hour_text, tl.hour_font,
                               HourBounds(bounds, hour_w, minute_w),
                               "GTextAlignmentRight"))
    IN  Log(w3, DrawCall(w, tl.minute_text, tl.minute_font,
                         MinuteBounds(bounds, hour_w, minute_w),
                         "GTextAlignmentLeft"))

\* The draw hook drawing the texts as soon as one of them is present.
time_layer_update_proc_either(w, hour_w, minute_w) ==
    LET w1 == FillBackground(w)
        w2 == Log(w1, [fn |-> "graphics_context_set_text_color",
                       color |-> w.time_layer.text_color])
    IN  IF w.time_layer.hour_text # NULL \/ w.time_layer.minute_text # NULL
        THEN DrawTexts(w2, hour_w, minute_w)
        ELSE w2

time_layer_update_proc(w, hour_w, minute_w) ==
    LET w1 == FillBackground(w)
        w2 == Log(w1, [fn |-> "graphics_context_set_text_color",
                       color |-> w.time_layer.text_color])
    IN  IF w.time_layer.hour_text # NULL /\ w.time_layer.minute_text # NULL
        THEN DrawTexts(w2, hour_w, minute_w)
        ELSE w2

\* set_text marking the layer dirty only when a pointer changes.
time_layer_set_text_ifChanged(w, hour_ptr, minute_ptr) ==
    LET w1 == [w EXCEPT !.time_layer.hour_text = hour_ptr,
                        !.time_layer.minute_text = minute_ptr]
    IN  IF w.time_layer.hour_text # hour_ptr \/ w.time_layer.minute_text # minute_ptr
        THEN time_layer_mark_dirty(w1)
        ELSE w1

time_layer_set_text(w, hour_ptr, minute_ptr) ==
    time_layer_mark_dirty([w EXCEPT !.time_layer.hour_text = hour_ptr,
                                    !.time_layer.minute_text = minute_ptr])

\* HasText satisfied by either text alone.
HasText_either(tl) ==
    tl.hour_text # NULL \/ tl.minute_text # NULL

\* The test the three setters below make before marking the layer dirty.
HasText(tl) ==
    tl.hour_text # NULL /\ tl.minute_text # NULL

time_layer_set_fonts(w, hour_font, minute_font) ==
    LET w1 == [w EXCEPT !.time_layer.hour_font = hour_font,
                        !.time_layer.minute_font = minute_font]
    IN  IF HasText(w1.time_layer) THEN time_layer_mark_dirty(w1) ELSE w1

time_layer_set_text_color(w, color) ==
    LET w1 == [w EXCEPT !.time_layer.text_color = color]
    IN  IF HasText(w1.time_layer) THEN time_layer_mark_dirty(w1) ELSE w1

time_layer_set_background_color(w, color) ==
    LET w1 == [w EXCEPT !.time_layer.background_color = color]
    IN  IF HasText(w1.time_layer) THEN time_layer_mark_dirty(w1) ELSE w1

time_layer_init(w, frame) ==
    [w EXCEPT !.time_layer.layer = layer_init(@, frame),
              !.time_layer.text_color = "GColorWhite",
              !.time_layer.background_color = "GColorClear",
              !.time_layer.overflow_mode = "GTextOverflowModeWordWrap",
              !.time_layer.hour_font = "FONT_KEY_GOTHIC_14_BOLD",
              !.time_layer.minute_font = "FONT_KEY_GOTHIC_14_BOLD"]

(***************************************************************************)
(* The date TextLayer, the window and the font cache (collaborators).      *)
(***************************************************************************)
\* text_layer_set_text(&date_layer, date_text): the pointer is stored and the
\* layer marked dirty.
text_layer_set_text(w, ptr) ==
    Log([w EXCEPT !.date_layer.text = ptr, !.date_layer.layer.dirty = TRUE],
        [fn |-> "text_layer_set_text", layer |-> "date_layer", text |-> ptr])

\* fonts_load_custom_font(resource_get_handle(res)): the handle of the font.
fonts_load_custom_font(w, res) ==
    Log([w EXCEPT !.loaded = @ \cup {res}],
        [fn |-> "fonts_load_custom_font", font |-> res])

fonts_unload_custom_font(w, font) ==
    Log([w EXCEPT !.loaded = @ \ {font}],
        [fn |-> "fonts_unload_custom_font", font |-> font])

(***************************************************************************)
(* The watch face.                                                         *)
(***************************************************************************)
\* UpdateDate on every tick, whatever the mask.
UpdateDate_always(w, t) ==
    text_layer_set_text(
        [w EXCEPT !.date_text =
            string_format_time(@, DateBufSize, DatePattern, t.tick_time)],
        "date_text")

\* UpdateDate comparing the mask with the day flag instead of testing it.
UpdateDate_maskEquals(w, t) ==
    IF t.units_changed = {DAY_UNIT}
    THEN text_layer_set_text(
             [w EXCEPT !.date_text =
                 string_format_time(@, DateBufSize, DatePattern, t.tick_time)],
             "date_text")
    ELSE w

\* The date part of the tick handler.
UpdateDate(w, t) ==
    IF DAY_UNIT \in t.units_changed
    THEN text_layer_set_text(
             [w EXCEPT !.date_text =
                 string_format_time(@, DateBufSize, DatePattern, t.tick_time)],
             "date_text")
    ELSE w

\* UpdateHour moving one byte too few: the terminator is not moved.
UpdateHour_shortMove(w, t, is24h) ==
    IF is24h
    THEN [w EXCEPT !.hour_text =
             string_format_time(@, HourBufSize, Hour24Pattern, t.tick_time)]
    ELSE LET w1 == [w EXCEPT !.hour_text =
                       string_format_time(@, HourBufSize, Hour12Pattern,
                                          t.tick_time)]
         IN  IF w1.hour_text[1] = "0"
             THEN Log([w1 EXCEPT !.hour_text =
                          memmove(@, 0, 1, HourBufSize - 2)],
                      [fn |-> "memmove", buf |-> "hour_text", dst |-> 0,
                       src |-> 1, n |-> HourBufSize - 2])
             ELSE w1

\* UpdateHour stripping the leading zero in either clock style.
UpdateHour_stripAlways(w, t, is24h) ==
    LET w1 == [w EXCEPT !.hour_text =
                  string_format_time(@, HourBufSize,
                      IF is24h THEN Hour24Pattern ELSE Hour12Pattern,
                      t.tick_time)]
    IN  IF w1.hour_text[1] = "0"
        THEN Log([w1 EXCEPT !.hour_text = memmove(@, 0, 1, HourBufSize - 1)],
                 [fn |-> "memmove", buf |-> "hour_text", dst |-> 0,
                  src |-> 1, n |-> HourBufSize - 1])
        ELSE w1

\* The hour part of the tick handler; is24h is what clock_is_24h_style()
\* returns.
UpdateHour(w, t, is24h) ==
    IF is24h
    THEN [w EXCEPT !.hour_text =
             string_format_time(@, HourBufSize, Hour24Pattern, t.tick_time)]
    ELSE LET w1 == [w EXCEPT !.hour_text =
                       string_format_time(@, HourBufSize, Hour12Pattern,
                                          t.tick_time)]
         IN  IF w1.hour_text[1] = "0"
             THEN Log([w1 EXCEPT !.hour_text =
                          memmove(@, 0, 1, HourBufSize - 1)],
                      [fn |-> "memmove", buf |-> "hour_text", dst |-> 0,
                       src |-> 1, n |-> HourBufSize - 1])
             ELSE w1

\* UpdateMinute reformatting the minute only on ticks that change the hour.
UpdateMinute_onHourOnly(w, t) ==
    IF HOUR_UNIT \in t.units_changed
    THEN [w EXCEPT !.minute_text =
             string_format_time(@, MinuteBufSize, MinutePattern, t.tick_time)]
    ELSE w

\* UpdateMinute telling the formatter the size of the hour buffer.
UpdateMinute_hourSized(w, t) ==
    [w EXCEPT !.minute_text =
        string_format_time(@, HourBufSize, MinutePattern, t.tick_time)]

\* The minute part of the tick handler.
UpdateMinute(w, t) ==
    [w EXCEPT !.minute_text =
        string_format_time(@, MinuteBufSize, MinutePattern, t.tick_time)]

handle_minute_tick(w, t, is24h) ==
    LET w1 == UpdateDate(w, t)
        w2 == UpdateHour(w1, t, is24h)
        w3 == UpdateMinute(w2, t)
    IN  time_layer_set_text(w3, "hour_text", "minute_text")

\* The window part of handle_init.
InitWindow(w) ==
    LET w1 == Log([w EXCEPT !.window.layer = layer_init(@, WindowFrame),
                            !.window.inited = TRUE],
                  [fn |-> "window_init", window |-> "window"])
        w2 == Log([w1 EXCEPT !.window.on_stack = TRUE, !.window.layer.dirty = TRUE],
                  [fn |-> "window_stack_push", window |-> "window"])
    IN  Log([w2 EXCEPT !.window.background_color = "GColorBlack"],
            [fn |-> "window_set_background_color", color |-> "GColorBlack"])

\* The font loading of handle_init.
InitFonts(w) ==
    LET w1 == fonts_load_custom_font(w, "FONT_ROBOTO_CONDENSED_21")
        w2 == fonts_load_custom_font(w1, "FONT_ROBOTO_BOLD_SUBSET_49")
        w3 == fonts_load_custom_font(w2, "FONT_ROBOTO_THIN_SUBSET_49")
    IN  [w3 EXCEPT !.font_date = "FONT_ROBOTO_CONDENSED_21",
                   !.font_hour = "FONT_ROBOTO_BOLD_SUBSET_49",
                   !.font_minute = "FONT_ROBOTO_THIN_SUBSET_49"]

\* The time layer set-up of handle_init.
InitTimeLayer(w) ==
    LET w1 == time_layer_init(w, w.window.layer.frame)
        w2 == time_layer_set_text_color(w1, "GColorWhite")
        w3 == time_layer_set_background_color(w2, "GColorClear")
        w4 == time_layer_set_fonts(w3, w3.font_hour, w3.font_minute)
        w5 == [w4 EXCEPT !.time_layer.layer = layer_set_frame(@, TIME_FRAME)]
    IN  Log([w5 EXCEPT !.time_layer.layer.parent = "window"],
            [fn |-> "layer_add_child", layer |-> "time_layer"])

\* The date layer set-up of handle_init.
InitDateLayer(w) ==
    LET w1 == [w EXCEPT !.date_layer.layer = layer_init(@, w.window.layer.frame),
                        !.date_layer.text_color = "GColorWhite",
                        !.date_layer.background_color = "GColorClear",
                        !.date_layer.font = w.font_date,
                        !.date_layer.text_alignment = "GTextAlignmentCenter"]
        w2 == [w1 EXCEPT !.date_layer.layer = layer_set_frame(@, DATE_FRAME)]
    IN  Log([w2 EXCEPT !.date_layer.layer.parent = "window"],
            [fn |-> "layer_add_child", layer |-> "date_layer"])

\* InitialTick carrying only the minute flag, as a real minute tick might.
InitialTick_minuteOnly(tm) ==
    [tick_time |-> tm, units_changed |-> {MINUTE_UNIT}]

\* The tick handle_init synthesises; tm is what get_time() returns.
InitialTick(tm) ==
    [tick_time |-> tm,
     units_changed |-> {SECOND_UNIT, MINUTE_UNIT, HOUR_UNIT, DAY_UNIT}]

\* handle_init delivering the synthesised tick before it sets up the layers.
handle_init_tickFirst(w, tm, is24h) ==
    LET w1 == InitWindow(w)
        w2 == InitFonts(w1)
        w3 == handle_minute_tick(w2, InitialTick(tm), is24h)
        w4 == InitTimeLayer(w3)
    IN  InitDateLayer(w4)

handle_init(w, tm, is24h) ==
    LET w1 == InitWindow(w)
        w2 == InitFonts(w1)
        w3 == InitTimeLayer(w2)
        w4 == InitDateLayer(w3)
    IN  handle_minute_tick(w4, InitialTick(tm), is24h)

handle_deinit(w) ==
    LET w1 == fonts_unload_custom_font(w, w.font_date)
        w2 == fonts_unload_custom_font(w1, w.font_hour)
    IN  fonts_unload_custom_font(w2, w.font_minute)

(***************************************************************************)
(* The watch face under the event loop: Spec.                              *)
(***************************************************************************)
\* The widths the text measurer reports for the face's strings.
FaceMeasured == {30, 48, 60}

InitMemory ==
    /\ window = [layer |-> ZeroLayer, inited |-> FALSE, on_stack |-> FALSE,
                 background_color |-> "GColorBlack"]
    /\ date_layer = ZeroTextLayer
    /\ time_layer = ZeroTimeLayer
    /\ font_date = NULL
    /\ font_hour = NULL
    /\ font_minute = NULL
    /\ date_text = <<"X", "X", "X", ",", " ", "X", "X", "X", " ", "0", "0", NUL>>
    /\ hour_text = <<"0", "0", NUL>>
    /\ minute_text = <<":", "0", "0", NUL>>
    /\ loaded = {}
    /\ op = [name |-> "none"]
    /\ calls = <<>>

Init ==
    /\ InitMemory
    /\ clock \in [now : Times, is24h : BOOLEAN]
    /\ pc = "start"

\* The event loop calls the init handler.
HandleInit ==
    /\ pc = "start"
    /\ \E w \in {handle_init(World, clock.now, clock.is24h)} : Commit(w)
    /\ op' = [name |-> "handle_init", t |-> InitialTick(clock.now),
              is24h |-> clock.is24h]
    /\ pc' = "running"
    /\ UNCHANGED clock

\* The unit flags the clock collaborator may report for a tick at time tm
\* that follows a tick at time prev: the day flag is set whenever the
\* calendar day differs.
TickMasks(prev, tm) ==
    {m \in SUBSET TimeUnits :
        /\ SECOND_UNIT \in m
        /\ MINUTE_UNIT \in m
        /\ HOUR_UNIT \in m <=>
              (tm.tm_hour # prev.tm_hour \/ tm.tm_yday # prev.tm_yday)
        /\ tm.tm_yday # prev.tm_yday => DAY_UNIT \in m}

\* The minute-of-hour values of the model's times, in order.
MinuteSeq == <<0, 7, 59>>

MinuteIndex(min) ==
    CHOOSE i \in 1 .. Len(MinuteSeq) : MinuteSeq[i] = min

\* The model's next time after prev: the next minute value, rolling over
\* into the next hour and the next day.
NextTime(prev) ==
    LET i == MinuteIndex(prev.tm_min)
    IN  IF i < Len(MinuteSeq)
        THEN PblTm(prev.tm_yday, prev.tm_hour, MinuteSeq[i + 1])
        ELSE IF prev.tm_hour < 23
             THEN PblTm(prev.tm_yday, prev.tm_hour + 1, MinuteSeq[1])
             ELSE PblTm(prev.tm_yday + 1, 0, MinuteSeq[1])

\* Time passes and the clock collaborator delivers a tick.
Tick ==
    /\ pc = "running"
    /\ \E tm \in {NextTime(clock.now)}, is24h \in BOOLEAN :
          /\ tm.tm_yday \in Ydays
          /\ \E m \in TickMasks(clock.now, tm) :
                LET t == [tick_time |-> tm, units_changed |-> m]
                IN  /\ \E w \in {handle_minute_tick(World, t, is24h)} : Commit(w)
                    /\ op' = [name |-> "handle_minute_tick", t |-> t,
                              is24h |-> is24h]
          /\ clock' = [now |-> tm, is24h |-> is24h]
    /\ UNCHANGED pc

\* A draw pass of the display runtime: the layers are taken as clean and
\* the time layer's draw hook runs.
Rendered(w) ==
    [w EXCEPT !.window.layer.dirty = FALSE,
              !.time_layer.layer.dirty = FALSE,
              !.date_layer.layer.dirty = FALSE]

DrawPass ==
    /\ pc = "running"
    /\ \E hour_w \in FaceMeasured, minute_w \in FaceMeasured :
          /\ \E w \in {time_layer_update_proc(Rendered(World), hour_w, minute_w)} : Commit(w)
          /\ op' = [name |-> "time_layer_update_proc"]
    /\ UNCHANGED <<clock, pc>>

\* The event loop calls the deinit handler and the app ends.
HandleDeinit ==
    /\ pc = "running"
    /\ \E w \in {handle_deinit(World)} : Commit(w)
    /\ op' = [name |-> "handle_deinit"]
    /\ pc' = "done"
    /\ UNCHANGED clock

Next ==
    \/ HandleInit
    \/ Tick
    \/ DrawPass
    \/ HandleDeinit

Spec == Init /\ [][Next]_vars

(***************************************************************************)
(* The TimeLayer as a component: LayoutSpec.                               *)
(***************************************************************************)
BoundsWidths == (0 .. MaxW) \cup {ScreenW}
MeasuredWidths == (0 .. MaxMeasured) \cup {30, 48, 60}
BoundsOrigins == {[x |-> 0, y |-> 0], [x |-> 3, y |-> 5]}
LayoutFontPairs ==
    {<<"FONT_KEY_GOTHIC_14_BOLD", "FONT_KEY_GOTHIC_14_BOLD">>,
     <<"FONT_ROBOTO_BOLD_SUBSET_49", "FONT_ROBOTO_THIN_SUBSET_49">>}
BackgroundColors == {"GColorClear", "GColorBlack"}
TextColors == {"GColorWhite", "GColorBlack"}

L_Init ==
    /\ pc = "start"
    /\ \E w \in {time_layer_init(World, WindowFrame)} : Commit(w)
    /\ op' = [name |-> "time_layer_init", frame |-> WindowFrame]
    /\ pc' = "layout"
    /\ UNCHANGED clock

L_SetText ==
    /\ pc = "layout"
    /\ \E h \in {NULL, "hour_text"}, m \in {NULL, "minute_text"} :
          /\ \E w \in {time_layer_set_text(World, h, m)} : Commit(w)
          /\ op' = [name |-> "time_layer_set_text", hour_text |-> h,
                    minute_text |-> m]
    /\ UNCHANGED <<clock, pc>>

L_SetFonts ==
    /\ pc = "layout"
    /\ \E f \in LayoutFontPairs :
          /\ \E w \in {time_layer_set_fonts(World, f[1], f[2])} : Commit(w)
          /\ op' = [name |-> "time_layer_set_fonts", hour_font |-> f[1],
                    minute_font |-> f[2]]
    /\ UNCHANGED <<clock, pc>>

L_SetTextColor ==
    /\ pc = "layout"
    /\ \E c \in TextColors :
          /\ \E w \in {time_layer_set_text_color(World, c)} : Commit(w)
          /\ op' = [name |-> "time_layer_set_text_color", color |-> c]
    /\ UNCHANGED <<clock, pc>>

L_SetBackgroundColor ==
    /\ pc = "layout"
    /\ \E c \in BackgroundColors :
          /\ \E w \in {time_layer_set_background_color(World, c)} : Commit(w)
          /\ op' = [name |-> "time_layer_set_background_color", color |-> c]
    /\ UNCHANGED <<clock, pc>>

\* The display collaborator gives the layer other bounds.
L_SetBounds ==
    /\ pc = "layout"
    /\ \E o \in BoundsOrigins, bw \in BoundsWidths :
          /\ \E w \in {[World EXCEPT !.time_layer.layer.bounds.origin = o,
                                  !.time_layer.layer.bounds.size.w = bw,
                                  !.time_layer.layer.dirty = TRUE]} : Commit(w)
          /\ op' = [name |-> "layer_set_bounds", origin |-> o, w |-> bw]
    /\ UNCHANGED <<clock, pc>>

\* The display collaborator runs the draw hook; the measurer reports any
\* two widths.
L_Draw ==
    /\ pc = "layout"
    /\ \E hour_w \in MeasuredWidths, minute_w \in MeasuredWidths :
          /\ \E w \in {time_layer_update_proc(
                        [World EXCEPT !.time_layer.layer.dirty = FALSE],
                        hour_w, minute_w)} : Commit(w)
          /\ op' = [name |-> "time_layer_update_proc"]
    /\ UNCHANGED <<clock, pc>>

LayoutNext ==
    \/ L_Init
    \/ L_SetText
    \/ L_SetFonts
    \/ L_SetTextColor
    \/ L_SetBackgroundColor
    \/ L_SetBounds
    \/ L_Draw

LayoutStart ==
    /\ InitMemory
    /\ clock = [now |-> PblTm(94, 9, 7), is24h |-> FALSE]
    /\ pc = "start"

LayoutSpec == LayoutStart /\ [][LayoutNext]_vars

(***************************************************************************)
(* Properties of the draw hook.                                            *)
(***************************************************************************)
\* Both texts are present in a TimeLayer.
HasTextOf(tl) ==
    tl.hour_text # NULL /\ tl.minute_text # NULL

\* The measurement and text-draw calls of the handler that ran last.
Measures ==
    SelectSeq(calls, LAMBDA c : c.fn = "graphics_text_layout_get_max_used_size")

TextDraws ==
    SelectSeq(calls, LAMBDA c : c.fn = "graphics_text_draw")

\* The draw hook ran last, on a layer holding both texts.
DrewWithText ==
    op.name = "time_layer_update_proc" /\ HasTextOf(time_layer)

\* The draw hook ran last, on a layer missing a text.
DrewWithoutText ==
    op.name = "time_layer_update_proc" /\ ~HasTextOf(time_layer)

\* C1: seam law.  Whenever the draw hook runs with both texts present on
\* bounds of width W at origin x = 0 and the two measured widths hw, mw
\* satisfy hw + mw <= W, it draws the hour text right-aligned in a box of
\* width W/2 - (hw+mw)/2 + hw and the minute text left-aligned in a box of
\* width mw whose x is that hour box width + 1 (W=144, hw=30, mw=48 gives 63
\* and 64; W=144, hw=mw=60 gives 72 and 73).
C1_SeamLaw ==
    DrewWithText /\ time_layer.layer.bounds.origin.x = 0 =>
        /\ Len(Measures) = 2
        /\ Len(TextDraws) = 2
        /\ LET W == time_layer.layer.bounds.size.w
               hw == Measures[1].result_w
               mw == Measures[2].result_w
               hour_box == TextDraws[1].box
               minute_box == TextDraws[2].box
           IN  hw + mw <= W =>
                 /\ TextDraws[1].text = Deref(World, time_layer.hour_text)
                 /\ TextDraws[1].alignment = "GTextAlignmentRight"
                 /\ hour_box.size.w = (W \div 2) - ((hw + mw) \div 2) + hw
                 /\ TextDraws[2].text = Deref(World, time_layer.minute_text)
                 /\ TextDraws[2].alignment = "GTextAlignmentLeft"
                 /\ minute_box.size.w = mw
                 /\ minute_box.origin.x = hour_box.size.w + 1
                 /\ (W = 144 /\ hw = 30 /\ mw = 48 =>
                        hour_box.size.w = 63 /\ minute_box.origin.x = 64)
                 /\ (W = 144 /\ hw = 60 /\ mw = 60 =>
                        hour_box.size.w = 72 /\ minute_box.origin.x = 73)

\* Scenario S1 has been drawn: W=144, hw=30, mw=48, seam at 63/64.
C1_Witness ==
    /\ DrewWithText
    /\ time_layer.layer.bounds = GRect(0, 0, 144, 168)
    /\ Len(Measures) = 2
    /\ Measures[1].result_w = 30
    /\ Measures[2].result_w = 48
    /\ Len(TextDraws) = 2
    /\ TextDraws[1].box.size.w = 63
    /\ TextDraws[2].box.origin.x = 64

\* C2: centring.  Whenever the draw hook runs with both texts present and
\* hw + mw <= W, the midpoint of the combined run, from the hour run's left
\* edge hour_box.width - hw to the minute run's right edge
\* hour_box.width + 1 + mw, is at least W/2 and at most W/2 + 1 (stated on
\* twice the midpoint, left + right, to stay in the integers).
C2_Centring ==
    DrewWithText /\ Len(Measures) = 2 /\ Len(TextDraws) = 2 =>
        LET W == time_layer.layer.bounds.size.w
            hw == Measures[1].result_w
            mw == Measures[2].result_w
            left == TextDraws[1].box.size.w - hw
            right == TextDraws[1].box.size.w + 1 + mw
        IN  hw + mw <= W =>
              /\ left + right >= 2 * (W \div 2)
              /\ left + right <= 2 * (W \div 2) + 2

\* A run of odd total width (hw = 2, mw = 1) has been drawn inside bounds
\* of width 3, and its midpoint is one whole pixel right of W/2.
C2_Witness ==
    /\ DrewWithText
    /\ Len(Measures) = 2
    /\ Len(TextDraws) = 2
    /\ Measures[1].result_w = 2
    /\ Measures[2].result_w = 1
    /\ time_layer.layer.bounds.size.w = 3
    /\ LET left == TextDraws[1].box.size.w - 2
           right == TextDraws[1].box.size.w + 1 + 1
       IN  left + right = 2 * (3 \div 2) + 2

\* C3: no-text draw.  Whenever the draw hook runs with the hour text or
\* the minute text absent, it issues no measurement call and no text-draw
\* call; apart from setting the context's text colour it only fills the
\* bounds, and that exactly when the background colour is not clear.
C3_NoTextDraw ==
    DrewWithoutText =>
        /\ Measures = <<>>
        /\ TextDraws = <<>>
        /\ calls =
             IF time_layer.background_color # "GColorClear"
             THEN << [fn |-> "graphics_context_set_fill_color",
                      color |-> time_layer.background_color],
                     [fn |-> "graphics_fill_rect",
                      rect |-> time_layer.layer.bounds],
                     [fn |-> "graphics_context_set_text_color",
                      color |-> time_layer.text_color] >>
             ELSE << [fn |-> "graphics_context_set_text_color",
                      color |-> time_layer.text_color] >>

\* The draw hook has run on a layer holding the hour text but no minute
\* text, and filled the background.
C3_Witness ==
    /\ op.name = "time_layer_update_proc"
    /\ time_layer.hour_text # NULL
    /\ time_layer.minute_text = NULL
    /\ \E i \in 1 .. Len(calls) : calls[i].fn = "graphics_fill_rect"

(***************************************************************************)
(* Properties of the TimeLayer setters.                                    *)
(***************************************************************************)
\* The calls of the last handler that mark the time layer dirty.
DirtyMarks ==
    SelectSeq(calls, LAMBDA c : c.fn = "layer_mark_dirty" /\ c.layer = "time_layer")

\* C4: dirty-marking discipline.  After each call of time_layer_set_fonts,
\* time_layer_set_text_color or time_layer_set_background_color the new
\* value is stored, and the call has marked the layer dirty if and only if
\* both texts are present (the setters leave the texts as they were).
C4_DirtyMarking ==
    /\ op.name = "time_layer_set_fonts" =>
          /\ time_layer.hour_font = op.hour_font
          /\ time_layer.minute_font = op.minute_font
          /\ Len(DirtyMarks) = (IF HasTextOf(time_layer) THEN 1 ELSE 0)
          /\ HasTextOf(time_layer) => time_layer.layer.dirty
    /\ op.name = "time_layer_set_text_color" =>
          /\ time_layer.text_color = op.color
          /\ Len(DirtyMarks) = (IF HasTextOf(time_layer) THEN 1 ELSE 0)
          /\ HasTextOf(time_layer) => time_layer.layer.dirty
    /\ op.name = "time_layer_set_background_color" =>
          /\ time_layer.background_color = op.color
          /\ Len(DirtyMarks) = (IF HasTextOf(time_layer) THEN 1 ELSE 0)
          /\ HasTextOf(time_layer) => time_layer.layer.dirty

\* A colour has been set on a layer holding only the hour text: the value
\* is stored and the layer was not marked dirty.
C4_Witness ==
    /\ op.name = "time_layer_set_text_color"
    /\ time_layer.hour_text # NULL
    /\ time_layer.minute_text = NULL
    /\ time_layer.text_color = "GColorBlack"
    /\ DirtyMarks = <<>>
    /\ ~time_layer.layer.dirty

\* C8: minute box origin.  Whenever the draw hook draws the minute text, the
\* box's x origin is bounds.origin.x + hour_box.width + 1 and its y origin is
\* bounds.origin.y, also for bounds whose origin is not (0, 0).
C8_MinuteBoxOrigin ==
    DrewWithText /\ Len(TextDraws) = 2 =>
        /\ TextDraws[2].box.origin.x =
              time_layer.layer.bounds.origin.x + TextDraws[1].box.size.w + 1
        /\ TextDraws[2].box.origin.y = time_layer.layer.bounds.origin.y

\* C9: clamping.  Whenever the draw hook draws the hour text, for any
\* measured widths, the hour box's width lies in [0, bounds.width].
C9_HourBoxClamped ==
    DrewWithText /\ Len(TextDraws) = 2 =>
        /\ TextDraws[1].box.size.w >= 0
        /\ TextDraws[1].box.size.w <= time_layer.layer.bounds.size.w

(***************************************************************************)
(* Properties of the tick handler.                                         *)
(***************************************************************************)
\* A tick was handled last: a minute tick, or the tick handle_init makes up.
TickHandled ==
    op.name \in {"handle_minute_tick", "handle_init"}

\* The hour of a 24-hour clock on a 12-hour dial: 1..12.
Hour12(hour) ==
    ((hour + 11) % 12) + 1

\* A number 1..12 in decimal without leading zero.
Decimal(n) ==
    IF n < 10 THEN <<DigitChars[n + 1]>> ELSE <<"1", DigitChars[n - 10 + 1]>>

\* C5: leading-zero suppression.  After any tick handled in 12-hour mode,
\* for every tick hour 0..23, the hour buffer holds the 12-hour value 1..12
\* without leading '0' and terminated: one character and a terminator for
\* 1..9, two characters and a terminator for 10, 11, 12.
C5_LeadingZero ==
    TickHandled /\ ~op.is24h =>
        LET h12 == Hour12(op.t.tick_time.tm_hour)
            n == IF h12 < 10 THEN 1 ELSE 2
        IN  /\ Len(hour_text) = HourBufSize
            /\ hour_text[1] # "0"
            /\ \A i \in 1 .. n : hour_text[i] # NUL
            /\ hour_text[n + 1] = NUL
            /\ CStr(hour_text) = Decimal(h12)

\* A tick at 21:xx has been handled in 12-hour mode: the buffer holds "9".
C5_Witness ==
    /\ op.name = "handle_minute_tick"
    /\ ~op.is24h
    /\ op.t.tick_time.tm_hour = 21
    /\ hour_text = <<"9", NUL, NUL>>

\* The calls of the last handler that push a text to the date region.
DatePushes ==
    SelectSeq(calls, LAMBDA c : c.fn = "text_layer_set_text")

\* C6: day-change gating.  On every tick the date buffer is reformatted
\* from the tick time and pushed to the date region if and only if the
\* tick's mask has the day flag; when the flag is clear the date buffer and
\* the date region are left as they were.
C6_DayGating ==
    [][TickHandled' =>
          IF DAY_UNIT \in op'.t.units_changed
          THEN /\ Len(DatePushes') = 1
               /\ CStr(date_text') = FormatTime(DatePattern, op'.t.tick_time)
               /\ date_layer'.text = "date_text"
               /\ date_layer'.layer.dirty
          ELSE /\ DatePushes' = <<>>
               /\ date_text' = date_text
               /\ date_layer' = date_layer]_vars

\* A tick without the day flag has been handled after a draw pass: nothing
\* was pushed to the date region, which is still clean.
C6_Witness ==
    /\ op.name = "handle_minute_tick"
    /\ DAY_UNIT \notin op.t.units_changed
    /\ DatePushes = <<>>
    /\ ~date_layer.layer.dirty
    /\ time_layer.layer.dirty

\* The hour string a tick at time tm must leave, by clock mode.
HourString(tm, is24h) ==
    IF is24h THEN TwoDigits(tm.tm_hour) ELSE Decimal(Hour12(tm.tm_hour))

\* C7: every tick, whatever its mask and the clock mode, leaves the hour
\* and minute buffers formatted from the tick time and ends by calling
\* set_text with both buffers, which stores the two references and marks
\* the layout dirty: after every tick the layout is dirty and has text.
C7_TickSetsText ==
    TickHandled =>
        /\ CStr(hour_text) = HourString(op.t.tick_time, op.is24h)
        /\ CStr(minute_text) = <<":">> \o TwoDigits(op.t.tick_time.tm_min)
        /\ time_layer.hour_text = "hour_text"
        /\ time_layer.minute_text = "minute_text"
        /\ calls # <<>>
        /\ calls[Len(calls)] = [fn |-> "layer_mark_dirty", layer |-> "time_layer"]
        /\ time_layer.layer.dirty
        /\ HasTextOf(time_layer)

\* A tick with neither the hour nor the day flag has been handled after a
\* draw pass: the time layer is dirty again, the date layer still clean.
C7_Witness ==
    /\ op.name = "handle_minute_tick"
    /\ op.t.units_changed = {SECOND_UNIT, MINUTE_UNIT}
    /\ op.t.tick_time.tm_min = 7
    /\ CStr(minute_text) = <<":", "0", "7">>
    /\ time_layer.layer.dirty
    /\ ~date_layer.layer.dirty

\* C10: the displayed date is never stale.  With a clock collaborator that
\* sets the day flag on every tick whose calendar day differs from the
\* previous tick's, after init and after every later tick the date region
\* shows the date buffer, and the buffer holds the formatted date of the
\* most recent tick time (clock.now).
C10_DateNeverStale ==
    pc # "start" =>
        /\ date_layer.text = "date_text"
        /\ CStr(date_text) = FormatTime(DatePattern, clock.now)

\* The tick at 00:00 that follows 23:59 of Fri, Apr 05 has been handled:
\* the date buffer holds the new day.
C10_Witness ==
    /\ op.name = "handle_minute_tick"
    /\ op.t.tick_time.tm_yday = 95
    /\ op.t.tick_time.tm_hour = 0
    /\ op.t.tick_time.tm_min = 0
    /\ clock.now = op.t.tick_time
    /\ CStr(date_text) = <<"S", "a", "t", ",", " ", "A", "p", "r", " ", "0", "6">>


(***************************************************************************)
(* Properties of start-up and shutdown.                                    *)
(***************************************************************************)
\* C11: initial tick.  handle_init makes up one tick from the current
\* wall-clock time with all unit flags set, the day flag included; when it
\* returns, without any real tick, the date region has been given the date
\* buffer formatted from that time, the layout holds the hour and the
\* minute text, and the layout is marked dirty.
C11_InitialTick ==
    op.name = "handle_init" =>
        /\ op.t.tick_time = clock.now
        /\ op.t.units_changed = {SECOND_UNIT, MINUTE_UNIT, HOUR_UNIT, DAY_UNIT}
        /\ Len(DatePushes) = 1
        /\ DatePushes[1].text = "date_text"
        /\ date_layer.text = "date_text"
        /\ CStr(date_text) = FormatTime(DatePattern, clock.now)
        /\ time_layer.hour_text = "hour_text"
        /\ time_layer.minute_text = "minute_text"
        /\ CStr(hour_text) = HourString(clock.now, clock.is24h)
        /\ CStr(minute_text) = <<":">> \o TwoDigits(clock.now.tm_min)
        /\ time_layer.layer.dirty

\* Scenario S3 at start-up: handle_init has returned at Fri, Apr 05 09:07 in
\* 12-hour mode.
C11_Witness ==
    /\ op.name = "handle_init"
    /\ pc = "running"
    /\ ~clock.is24h
    /\ CStr(date_text) = <<"F", "r", "i", ",", " ", "A", "p", "r", " ", "0", "5">>
    /\ CStr(hour_text) = <<"9">>
    /\ CStr(minute_text) = <<":", "0", "7">>
    /\ date_layer.text = "date_text"
    /\ HasTextOf(time_layer)
    /\ time_layer.layer.dirty


\* The layout exists: time_layer_init has set it up and it is in the window's
\* layer tree; nothing in the program takes it out again.
TimeLayoutExists == time_layer.layer.parent = "window"

\* Index of the first logged call of the last handler that satisfies P.
FirstCall(P(_)) ==
    IF \E i \in 1..Len(calls) : P(calls[i])
    THEN CHOOSE i \in 1..Len(calls) :
             /\ P(calls[i])
             /\ \A j \in 1..(i - 1) : ~P(calls[j])
    ELSE 0

IsFontLoad(c) == c.fn = "fonts_load_custom_font"
IsFontUnload(c) == c.fn = "fonts_unload_custom_font"
IsTimeLayerAdd(c) == c.fn = "layer_add_child" /\ c.layer = "time_layer"

\* C12: font lifetimes enclose the layout lifetime.  Whenever the layout
\* exists and holds the custom hour and minute font handles, both fonts are
\* loaded; in handle_init every font load precedes the creation of the
\* layout.
C12_FontsEncloseLayout ==
    /\ (TimeLayoutExists
            /\ time_layer.hour_font = font_hour
            /\ time_layer.minute_font = font_minute)
        => {time_layer.hour_font, time_layer.minute_font} \subseteq loaded
    /\ op.name = "handle_init" =>
        \A i \in 1..Len(calls) :
            IsFontLoad(calls[i]) => i < FirstCall(IsTimeLayerAdd)


\* The call c of handle_deinit acts on the resource named what.
IsReleaseOf(c, what) ==
    \/ "layer" \in DOMAIN c /\ c.layer = what
    \/ "window" \in DOMAIN c /\ c.window = what
    \/ "font" \in DOMAIN c /\ c.font = what

\* What handle_init acquires, in the order of acquisition.
Acquired ==
    <<"window", font_date, font_hour, font_minute, "time_layer", "date_layer">>

\* Position in the calls of the last handler of the release of the i-th
\* acquired resource, 0 when it is not released.
ReleaseIndex(i) ==
    IF \E k \in 1..Len(calls) : IsReleaseOf(calls[k], Acquired[i])
    THEN CHOOSE k \in 1..Len(calls) : IsReleaseOf(calls[k], Acquired[i])
    ELSE 0

\* C13: handle_deinit releases everything handle_init acquired, in reverse
\* order of acquisition: each acquired resource is released, and of two
\* resources the one acquired later is released earlier; in particular the
\* three fonts are unloaded in the reverse of the order they were loaded in.
C13_ReverseRelease ==
    op.name = "handle_deinit" =>
        /\ \A i \in 1..Len(Acquired) : ReleaseIndex(i) > 0
        /\ \A i, j \in 1..Len(Acquired) :
               i < j => ReleaseIndex(j) < ReleaseIndex(i)


(***************************************************************************)
(* Properties of the face under the event loop.                            *)
(***************************************************************************)
\* C14: consistent pair at draw.  Handlers run to completion one after the
\* other, so in every invocation of the draw hook the hour string and the
\* minute string measured and drawn through the layout's pointers are both
\* those of the most recent tick: the hour of clock.now in the style of that
\* tick, and the colon and two-digit minute of clock.now.
C14_ConsistentPair ==
    op.name = "time_layer_update_proc" =>
        /\ Len(Measures) = 2
        /\ Len(TextDraws) = 2
        /\ Measures[1].text = HourString(clock.now, clock.is24h)
        /\ TextDraws[1].text = HourString(clock.now, clock.is24h)
        /\ Measures[2].text = <<":">> \o TwoDigits(clock.now.tm_min)
        /\ TextDraws[2].text = <<":">> \o TwoDigits(clock.now.tm_min)

\* A draw after the real tick from 09:59 to 10:00 in 12-hour mode: it shows
\* "10" and ":00", neither "9" with ":00" nor "10" with ":59".
C14_Witness ==
    /\ op.name = "time_layer_update_proc"
    /\ clock.now.tm_hour = 10
    /\ clock.now.tm_min = 0
    /\ ~clock.is24h
    /\ TextDraws[1].text = <<"1", "0">>
    /\ TextDraws[2].text = <<":", "0", "0">>


(***************************************************************************)
(* The tick handler's formatting over the whole calendar: FormatSpec.      *)
(* The face starts at any minute of any day of the year, in either clock   *)
(* style, and handles the first real tick after start-up.                  *)
(***************************************************************************)
FormatYdays == 0 .. (MonthStart[Len(MonthStart)] - 1)

FormatTimes == {PblTm(d, h, m) : d \in FormatYdays, h \in Hours, m \in Minutes}

FormatInit ==
    /\ InitMemory
    /\ clock \in [now : FormatTimes, is24h : BOOLEAN]
    /\ pc = "start"

\* prev is not the last minute of the year.
HasNextTime(prev) ==
    ~(/\ prev.tm_yday + 1 \notin FormatYdays
      /\ prev.tm_hour = 23
      /\ MinuteIndex(prev.tm_min) = Len(MinuteSeq))

\* The first tick after start-up.
FirstTick ==
    /\ pc = "running"
    /\ op.name = "handle_init"
    /\ HasNextTime(clock.now)
    /\ \E tm \in {NextTime(clock.now)}, is24h \in BOOLEAN :
          /\ \E m \in TickMasks(clock.now, tm) :
                LET t == [tick_time |-> tm, units_changed |-> m]
                IN  /\ \E w \in {handle_minute_tick(World, t, is24h)} : Commit(w)
                    /\ op' = [name |-> "handle_minute_tick", t |-> t,
                              is24h |-> is24h]
          /\ clock' = [now |-> tm, is24h |-> is24h]
    /\ UNCHANGED pc

FormatNext ==
    \/ HandleInit
    \/ FirstTick

FormatSpec == FormatInit /\ [][FormatNext]_vars

\* The memmove calls of the last handler.
Memmoves == SelectSeq(calls, LAMBDA c : c.fn = "memmove")

\* C15: no formatter buffer overflow.  After every tick, at any time and in
\* either clock style, each formatted string and its terminator fit the
\* buffer they were formatted into, so nothing was cut: the date has at most
\* 11 characters in its 12 bytes, the hour at most 2 in its 3 bytes, the
\* minute exactly 3 in its 4 bytes.  The leading-zero shift reads and writes
\* only bytes of the hour buffer, which stays terminated.
C15_NoOverflow ==
    TickHandled =>
        /\ Len(date_text) = DateBufSize
        /\ Len(hour_text) = HourBufSize
        /\ Len(minute_text) = MinuteBufSize
        /\ DAY_UNIT \in op.t.units_changed =>
              /\ Len(FormatTime(DatePattern, op.t.tick_time)) + 1 <= DateBufSize
              /\ CStr(date_text) = FormatTime(DatePattern, op.t.tick_time)
        /\ Len(CStr(date_text)) <= 11
        /\ Len(FormatTime(IF op.is24h THEN Hour24Pattern ELSE Hour12Pattern,
                          op.t.tick_time)) + 1 <= HourBufSize
        /\ Len(CStr(hour_text)) <= 2
        /\ CStr(hour_text) = HourString(op.t.tick_time, op.is24h)
        /\ \E i \in 1 .. HourBufSize : hour_text[i] = NUL
        /\ Len(FormatTime(MinutePattern, op.t.tick_time)) + 1 <= MinuteBufSize
        /\ Len(CStr(minute_text)) = 3
        /\ CStr(minute_text) = FormatTime(MinutePattern, op.t.tick_time)
        /\ \A i \in 1 .. Len(Memmoves) :
              /\ Memmoves[i].buf = "hour_text"
              /\ Memmoves[i].dst >= 0
              /\ Memmoves[i].src >= 0
              /\ Memmoves[i].dst + Memmoves[i].n <= HourBufSize
              /\ Memmoves[i].src + Memmoves[i].n <= HourBufSize

\* A 12-hour tick at Wed, Sep 25 09:00, following start-up in 24-hour style
\* at 08:59: the hour buffer held "08", was formatted to "09" and shifted.
C15_Witness ==
    /\ op.name = "handle_minute_tick"
    /\ ~op.is24h
    /\ DAY_UNIT \in op.t.units_changed
    /\ Len(Memmoves) = 1
    /\ CStr(date_text) = <<"W", "e", "d", ",", " ", "S", "e", "p", " ", "2", "5">>
    /\ hour_text = <<"9", NUL, NUL>>
    /\ CStr(minute_text) = <<":", "0", "0">>


\* C16: 24-hour mode.  After a tick handled in 24-hour style, at any hour
\* 0..23, the hour buffer holds exactly the two digits of the hour, zero
\* padded, and no leading zero was stripped; in both styles the minute
\* buffer holds a colon and the two digits of the minute.
C16_Hour24 ==
    TickHandled =>
        /\ op.is24h =>
              /\ CStr(hour_text) = TwoDigits(op.t.tick_time.tm_hour)
              /\ Len(CStr(hour_text)) = 2
              /\ Len(Memmoves) = 0
        /\ CStr(minute_text) = <<":">> \o TwoDigits(op.t.tick_time.tm_min)

\* Scenario: a real tick at 09:07 handled in 24-hour style leaves "09".
C16_Witness ==
    /\ op.name = "handle_minute_tick"
    /\ op.is24h
    /\ op.t.tick_time.tm_hour = 9
    /\ op.t.tick_time.tm_min = 7
    /\ hour_text = <<"0", "9", NUL>>
    /\ Len(Memmoves) = 0
    /\ CStr(minute_text) = <<":", "0", "7">>


(***************************************************************************)
(* Further properties of the TimeLayer draw hook.                          *)
(***************************************************************************)
\* C17: reflow without cached layout.  A run of the draw hook changes no
\* field of the TimeLayer (texts, fonts, colours, overflow mode, layout
\* cache; only the runtime's dirty flag of the layer is cleared), and with
\* both texts present its two boxes are determined by the bounds at that
\* draw and the two widths measured in that draw alone, whatever was drawn
\* before and on whatever bounds.
C17_Reflow ==
    [][op'.name = "time_layer_update_proc" =>
          /\ [time_layer' EXCEPT !.layer.dirty = time_layer.layer.dirty]
                = time_layer
          /\ HasTextOf(time_layer') =>
                /\ Len(Measures') = 2
                /\ Len(TextDraws') = 2
                /\ LET bounds == time_layer'.layer.bounds
                       hw == Measures'[1].result_w
                       mw == Measures'[2].result_w
                       hour_w == ToInt16(CDiv(bounds.size.w, 2)
                                         - CDiv(hw + mw, 2) + hw)
                   IN  /\ Measures'[1].box = bounds
                       /\ Measures'[2].box = bounds
                       /\ Measures'[1].cache = NULL
                       /\ Measures'[2].cache = NULL
                       /\ TextDraws'[1].box =
                             [origin |-> bounds.origin,
                              size |-> [w |-> hour_w, h |-> bounds.size.h]]
                       /\ TextDraws'[2].box =
                             [origin |-> [x |-> ToInt16(hour_w + 1),
                                          y |-> bounds.origin.y],
                              size |-> [w |-> mw, h |-> bounds.size.h]]
    ]_vars

\* A draw after the bounds were changed from the initial 144 columns to 2
\* columns at origin (3, 5): with hw = 1 and mw = 1 the boxes are those of
\* the new bounds.
C17_Witness ==
    /\ DrewWithText
    /\ time_layer.layer.frame = WindowFrame
    /\ time_layer.layer.bounds = GRect(3, 5, 2, ScreenH)
    /\ Len(Measures) = 2
    /\ Measures[1].result_w = 1
    /\ Measures[2].result_w = 1
    /\ Len(TextDraws) = 2
    /\ TextDraws[1].box = GRect(3, 5, 1, ScreenH)
    /\ TextDraws[2].box = GRect(2, 5, 1, ScreenH)


\* The positions in the calls of the last handler of the calls named fn.
CallIndexes(fn) == {i \in 1 .. Len(calls) : calls[i].fn = fn}

\* C18: background fill gating and order.  In every run of the draw hook
\* the bounds are filled, once and in the background colour, if and only if
\* the background colour is not clear; a fill precedes every text draw; and
\* the hour text is drawn before the minute text.
C18_FillGating ==
    op.name = "time_layer_update_proc" =>
        LET fills == CallIndexes("graphics_fill_rect")
            colors == CallIndexes("graphics_context_set_fill_color")
            draws == CallIndexes("graphics_text_draw")
        IN  /\ (fills # {}) <=> (time_layer.background_color # "GColorClear")
            /\ Cardinality(fills) <= 1
            /\ \A i \in fills :
                  /\ calls[i].rect = time_layer.layer.bounds
                  /\ \E j \in colors :
                        /\ j < i
                        /\ calls[j].color = time_layer.background_color
                  /\ \A k \in draws : i < k
            /\ HasTextOf(time_layer) =>
                  /\ Len(TextDraws) = 2
                  /\ TextDraws[1].text = Deref(World, time_layer.hour_text)
                  /\ TextDraws[1].font = time_layer.hour_font
                  /\ TextDraws[1].alignment = "GTextAlignmentRight"
                  /\ TextDraws[2].text = Deref(World, time_layer.minute_text)
                  /\ TextDraws[2].font = time_layer.minute_font
                  /\ TextDraws[2].alignment = "GTextAlignmentLeft"

\* A draw with both texts on a black background: the fill, then the hour
\* text in the bold font, then the minute text in the thin font.
C18_Witness ==
    /\ DrewWithText
    /\ time_layer.background_color = "GColorBlack"
    /\ time_layer.hour_font = "FONT_ROBOTO_BOLD_SUBSET_49"
    /\ time_layer.minute_font = "FONT_ROBOTO_THIN_SUBSET_49"
    /\ Cardinality(CallIndexes("graphics_fill_rect")) = 1
    /\ Len(TextDraws) = 2
    /\ \A i \in CallIndexes("graphics_fill_rect"),
          k \in CallIndexes("graphics_text_draw") : i < k
    /\ TextDraws[1].font = "FONT_ROBOTO_BOLD_SUBSET_49"
    /\ TextDraws[2].font = "FONT_ROBOTO_THIN_SUBSET_49"


\* C19: the layout's text state as the face drives it.  The hour and the
\* minute text are always both absent or both present; they are absent
\* until handle_init, whose colour and font setters therefore mark nothing
\* dirty: its only dirty mark is the last call it makes, the one of the
\* time_layer_set_text of the synthesised tick; from the return of
\* handle_init on both texts are present, and stay so.
C19_TextStates ==
    /\ (time_layer.hour_text = NULL) <=> (time_layer.minute_text = NULL)
    /\ pc = "start" => ~HasTextOf(time_layer)
    /\ pc # "start" =>
          /\ time_layer.hour_text = "hour_text"
          /\ time_layer.minute_text = "minute_text"
    /\ op.name = "handle_init" =>
          /\ Len(DirtyMarks) = 1
          /\ calls[Len(calls)] = DirtyMarks[1]
          /\ \E i \in 1 .. Len(calls) :
                calls[i].fn = "layer_add_child" /\ calls[i].layer = "time_layer"

\* handle_init has returned: the layout was set up with the white text
\* colour, the clear background and the two custom fonts, holds both texts,
\* and was marked dirty once, at the very end.
C19_Witness ==
    /\ op.name = "handle_init"
    /\ time_layer.text_color = "GColorWhite"
    /\ time_layer.background_color = "GColorClear"
    /\ time_layer.hour_font = "FONT_ROBOTO_BOLD_SUBSET_49"
    /\ time_layer.minute_font = "FONT_ROBOTO_THIN_SUBSET_49"
    /\ HasTextOf(time_layer)
    /\ Len(DirtyMarks) = 1
    /\ calls[Len(calls)].fn = "layer_mark_dirty"


\* C20: the boxes stay inside the bounds and do not overlap.  Whenever the
\* draw hook runs with both texts present on bounds of width W at origin
\* x = 0 and the measured widths satisfy hw + mw <= W - 2, the left edge of
\* the hour run, hour_box.width - hw, is not negative, the right edge of the
\* minute box, minute_box.x + mw, is at most W, and the minute box begins
\* right of the last column of the hour box.
C20_BoxesInside ==
    (DrewWithText /\ time_layer.layer.bounds.origin.x = 0
        /\ Len(Measures) = 2 /\ Len(TextDraws) = 2) =>
        LET W == time_layer.layer.bounds.size.w
            hw == Measures[1].result_w
            mw == Measures[2].result_w
            hour_box == TextDraws[1].box
            minute_box == TextDraws[2].box
        IN  (hw >= 0 /\ mw >= 0 /\ hw + mw <= W - 2) =>
              /\ hour_box.origin.x = 0
              /\ hour_box.size.w - hw >= 0
              /\ minute_box.size.w = mw
              /\ minute_box.origin.x + mw <= W
              /\ minute_box.origin.x > hour_box.origin.x + hour_box.size.w

\* The tightest case drawn: W = 3, hw = 1, mw = 0; the hour box is 2 wide
\* and the minute box begins and ends at column 3 = W.
C20_Witness ==
    /\ DrewWithText
    /\ time_layer.layer.bounds = GRect(0, 0, 3, ScreenH)
    /\ Len(Measures) = 2
    /\ Measures[1].result_w = 1
    /\ Measures[2].result_w = 0
    /\ Len(TextDraws) = 2
    /\ TextDraws[1].box.size.w = 2
    /\ TextDraws[2].box.origin.x = 3
    /\ TextDraws[2].box.origin.x + TextDraws[2].box.size.w = 3

====
